---- MODULE Spec2Model ----
(***************************************************************************)
(* Model of the Bakalari -> text-endpoint synchronisation:                 *)
(*   - the Bakalari client (createBakalariClient: fetchSubjectMarks,       *)
(*     fetchHomeworks, fetchEvents) with its field and date resolvers,     *)
(*   - the two encoders (buildMarksQueryString, buildHomeworksQueryString),*)
(*   - the run of a sync script: token -> data -> transform -> encode ->   *)
(*     upload.                                                             *)
(*                                                                         *)
(* A JavaScript string is a sequence of UTF-16 code units; each unit is a  *)
(* one-character TLA+ string, except a non-ASCII unit, written "U+XXXX",   *)
(* and the two halves of a surrogate pair, "HI" and "LO".  An instant is a *)
(* number of ticks since the epoch; DayLen ticks make a UTC day.  The      *)
(* process is taken to run with TZ=UTC, so that Intl's local calendar day  *)
(* is the UTC day.                                                         *)
(***************************************************************************)
EXTENDS Integers, Sequences, FiniteSets

\* ------------------------------------------------------------------ bounds
\* Ticks per UTC day.
DayLen == 2
\* Days per calendar month of the model's calendar.
MonthDays == 2
\* Instants of the model are 0 .. MaxInstant.
MaxInstant == 5
\* The longest list of marks the upstream answers with.
MaxMarks == 11
\* The longest list of homeworks the upstream answers with.
MaxHomeworks == 11
\* The longest homework text the upstream answers with.
MaxContentLen == 42

\* --------------------------------------------------------- program constants
\* .slice(0, 10) of fetchSubjectMarks
MarksLimit == 10
\* homeworks.slice(0, 10) of buildHomeworksQueryString
HomeworksLimit == 10
\* line.length > 50
LineMax == 50
\* line.substring(0, 49)
LineKeep == 49

\* ----------------------------------------------------------------- strings
DigitChars == <<"0", "1", "2", "3", "4", "5", "6", "7", "8", "9">>

RECURSIVE Digits(_)
\* String(n) of a non-negative integer.
Digits(n) ==
  IF n < 10 THEN <<DigitChars[n + 1]>>
  ELSE Digits(n \div 10) \o <<DigitChars[(n % 10) + 1]>>

IsDigit(c) == \E i \in 1..10 : DigitChars[i] = c

RECURSIVE DigitsValue(_)
DigitsValue(s) ==
  IF s = <<>> THEN 0
  ELSE 10 * DigitsValue(SubSeq(s, 1, Len(s) - 1))
       + (CHOOSE i \in 0..9 : DigitChars[i + 1] = s[Len(s)])

\* The white space of String.prototype.trim and of the \s class.
IsSpace(c) == c \in {" ", "\t", "\n"}

RECURSIVE TrimStart(_)
TrimStart(s) ==
  IF s # <<>> /\ IsSpace(Head(s)) THEN TrimStart(Tail(s)) ELSE s

RECURSIVE TrimEnd(_)
TrimEnd(s) ==
  IF s # <<>> /\ IsSpace(s[Len(s)]) THEN TrimEnd(SubSeq(s, 1, Len(s) - 1)) ELSE s

\* String.prototype.trim
Trim(s) == TrimEnd(TrimStart(s))

RECURSIVE Flatten(_, _, _)
\* The concatenation of pieces[lo], ..., pieces[hi].
Flatten(pieces, lo, hi) ==
  IF lo > hi THEN <<>>
  ELSE IF lo = hi THEN pieces[lo]
  ELSE LET mid == (lo + hi) \div 2
       IN  Flatten(pieces, lo, mid) \o Flatten(pieces, mid + 1, hi)

\* s.replace(/\s+/g, ' '): every run of white space becomes one space.
CollapseSpaces(s) ==
  Flatten([i \in 1..Len(s) |->
             IF ~IsSpace(s[i]) THEN <<s[i]>>
             ELSE IF i > 1 /\ IsSpace(s[i - 1]) THEN <<>>
             ELSE <<" ">>],
          1, Len(s))

\* s.substring(0, n)
Substring0(s, n) == SubSeq(s, 1, IF n < Len(s) THEN n ELSE Len(s))

\* The percent-escape of one code unit that is not half of a surrogate pair:
\* the UTF-8 bytes of the character, each as %XX; the unreserved characters
\* (letters, digits, - _ . ! ~ * ' ( )) stand for themselves.
PercentEscape(c) ==
  CASE c = " "  -> <<"%", "2", "0">>
    [] c = "\t" -> <<"%", "0", "9">>
    [] c = "\n" -> <<"%", "0", "A">>
    [] c = ":"  -> <<"%", "3", "A">>
    [] c = "["  -> <<"%", "5", "B">>
    [] c = "]"  -> <<"%", "5", "D">>
    [] c = "&"  -> <<"%", "2", "6">>
    [] c = "="  -> <<"%", "3", "D">>
    [] c = "%"  -> <<"%", "2", "5">>
    [] c = "U+00E1"  -> <<"%", "C", "3", "%", "A", "1">>
    [] c = "U+00E9"  -> <<"%", "C", "3", "%", "A", "9">>
    [] c = "U+00ED"  -> <<"%", "C", "3", "%", "A", "D">>
    [] c = "U+00FA"  -> <<"%", "C", "3", "%", "B", "A">>
    [] c = "U+00FD"  -> <<"%", "C", "3", "%", "B", "D">>
    [] c = "U+011B"  -> <<"%", "C", "4", "%", "9", "B">>
    [] c = "U+0159"  -> <<"%", "C", "5", "%", "9", "9">>
    [] c = "U+017D"  -> <<"%", "C", "5", "%", "B", "D">>
    [] c = "U+017E"  -> <<"%", "C", "5", "%", "B", "E">>
    [] c = "U+2013"  -> <<"%", "E", "2", "%", "8", "0", "%", "9", "3">>
    [] OTHER    -> <<c>>

\* The escape of a whole surrogate pair (U+1F600).
PairEscape == <<"%", "F", "0", "%", "9", "F", "%", "9", "8", "%", "8", "0">>

\* The outcome of a call that may throw.
Ok(v) == [ok |-> TRUE, v |-> v]
Thrown == [ok |-> FALSE, v |-> <<>>]

\* A surrogate half that is not part of a pair: a high half with no low half
\* after it, or a low half with no high half before it.
LoneSurrogate(s, i) ==
  \/ s[i] = "HI" /\ ~(i < Len(s) /\ s[i + 1] = "LO")
  \/ s[i] = "LO" /\ ~(i > 1 /\ s[i - 1] = "HI")

\* encodeURIComponent: a lone surrogate throws URIError; a pair is escaped as
\* one character.
encodeURIComponent(s) ==
  IF \E i \in 1..Len(s) : LoneSurrogate(s, i) THEN Thrown
  ELSE Ok(Flatten([i \in 1..Len(s) |->
                     IF s[i] = "HI" THEN PairEscape
                     ELSE IF s[i] = "LO" THEN <<>>
                     ELSE PercentEscape(s[i])],
                  1, Len(s)))

\* lines.join('&')
JoinAmp(lines) ==
  Flatten([i \in 1..Len(lines) |-> IF i = 1 THEN lines[1] ELSE <<"&">> \o lines[i]],
          1, Len(lines))

\* --------------------------------------------------------- JavaScript values
\* A value of the upstream JSON: read its tag t before any other field.
Undef == [t |-> "undefined"]
Null == [t |-> "null"]
Str(s) == [t |-> "string", s |-> s]
Num(n) == [t |-> "number", n |-> n]
Obj(o) == [t |-> "object", o |-> o]
Arr(a) == [t |-> "array", a |-> a]

IsNullish(v) == v.t \in {"undefined", "null"}

\* v?.f : undefined when v is null, undefined or has no such property.
Get(v, f) ==
  IF v.t = "object" THEN (IF f \in DOMAIN v.o THEN v.o[f] ELSE Undef) ELSE Undef

RECURSIVE Coalesce(_)
\* vs[1] ?? vs[2] ?? ... : the first value that is neither null nor undefined,
\* the last one when all are.
Coalesce(vs) ==
  IF Len(vs) = 1 THEN vs[1]
  ELSE IF IsNullish(Head(vs)) THEN Coalesce(Tail(vs)) ELSE Head(vs)

\* ToBoolean
Truthy(v) ==
  CASE v.t = "undefined" -> FALSE
    [] v.t = "null"      -> FALSE
    [] v.t = "string"    -> v.s # <<>>
    [] v.t = "number"    -> v.n # 0
    [] OTHER             -> TRUE

RECURSIVE JsString(_)
\* String(v), and v inside a template literal.
JsString(v) ==
  CASE v.t = "string"    -> v.s
    [] v.t = "number"    -> Digits(v.n)
    [] v.t = "null"      -> <<"n", "u", "l", "l">>
    [] v.t = "undefined" -> <<"u", "n", "d", "e", "f", "i", "n", "e", "d">>
    [] v.t = "array"     ->
         IF v.a = <<>> THEN <<>>
         ELSE LET first == IF IsNullish(v.a[1]) THEN <<>> ELSE JsString(v.a[1])
              IN  IF Len(v.a) = 1 THEN first
                  ELSE first \o <<",">> \o JsString(Arr(Tail(v.a)))
    [] OTHER             -> <<"[", "o", "b", "j", "e", "c", "t", " ",
                              "O", "b", "j", "e", "c", "t", "]">>

\* ------------------------------------------------------------------- dates
\* A Date: an instant, or an Invalid Date (getTime() is NaN).
DateOf(ms) == [valid |-> TRUE, ms |-> ms]
InvalidDate == [valid |-> FALSE, ms |-> 0]
\* null where a Date may stand.
NoDate == [valid |-> FALSE, ms |-> -1]

\* The upstream writes an instant as a date-time text; the model writes the
\* text of instant n as the decimal digits of n.  Any other text does not
\* parse.
DateText(ms) == Digits(ms)

\* new Date(v) for a value of the upstream JSON.
NewDate(v) ==
  CASE v.t = "string" ->
         IF v.s # <<>> /\ \A i \in 1..Len(v.s) : IsDigit(v.s[i])
         THEN DateOf(DigitsValue(v.s)) ELSE InvalidDate
    [] v.t = "number" -> DateOf(v.n)
    [] OTHER          -> InvalidDate

\* ------------------------------------------------------- the Bakalari client
UnknownSubject ==
  <<"N", "e", "z", "n", "U+00E1", "m", "U+00FD", " ",
    "p", "U+0159", "e", "d", "m", "U+011B", "t">>

extractSubjectName(subject) ==
  Coalesce(<<Get(Get(subject, "Subject"), "Abbrev"),
             Get(Get(subject, "Subject"), "Name"),
             Get(subject, "Name"),
             Get(subject, "Abbrev"),
             Str(UnknownSubject)>>)

\* typeof x !== 'undefined' ? String(x) : undefined
StringIfDefined(x) == IF x.t = "undefined" THEN Undef ELSE Str(JsString(x))

extractMarkValue(mark) ==
  Coalesce(<<Get(mark, "MarkText"),
             Get(mark, "Text"),
             Get(mark, "Caption"),
             Get(mark, "ValueText"),
             StringIfDefined(Get(mark, "Value")),
             StringIfDefined(Get(mark, "Mark")),
             Str(<<>>)>>)

\* The editDate of a mark: null when no candidate is truthy, else the Date of
\* the first candidate that is neither null nor undefined.
markEditDate(mark) ==
  LET editDateString == Coalesce(<<Get(mark, "EditDate"), Get(mark, "MarkDate"),
                                   Get(mark, "Date"), Get(mark, "Created"),
                                   Get(mark, "CreatedDate")>>)
  IN  IF Truthy(editDateString) THEN NewDate(editDateString) ELSE NoDate

\* The body of marks.forEach: the marks of one subject that are pushed.
RECURSIVE marksOfSubject(_, _)
marksOfSubject(subjectName, marks) ==
  IF marks = <<>> THEN <<>>
  ELSE LET mark == Head(marks)
           markValue == extractMarkValue(mark)
           editDate == markEditDate(mark)
       IN  (IF Truthy(markValue) /\ editDate.valid
            THEN <<[subjectName |-> subjectName,
                    markValue |-> markValue,
                    editDate |-> editDate.ms,
                    caption |-> Coalesce(<<Get(mark, "Caption"), Get(mark, "Theme"), Str(<<>>)>>),
                    theme |-> Coalesce(<<Get(mark, "Theme"), Str(<<>>)>>)]>>
            ELSE <<>>)
           \o marksOfSubject(subjectName, Tail(marks))

\* subjects.forEach: allMarks, or the TypeError of calling forEach on a nested
\* list that is not an array.
RECURSIVE flattenMarks(_)
flattenMarks(subjects) ==
  IF subjects = <<>> THEN Ok(<<>>)
  ELSE LET subject == Head(subjects)
           marks == Coalesce(<<Get(subject, "Marks"), Get(subject, "marks"), Arr(<<>>)>>)
       IN  IF marks.t # "array" THEN Thrown
           ELSE LET rest == flattenMarks(Tail(subjects))
                IN  IF rest.ok
                    THEN Ok(marksOfSubject(extractSubjectName(subject), marks.a) \o rest.v)
                    ELSE Thrown

\* Array.prototype.sort is stable.  keyed is a list of [k, x]: the comparator
\* of each sort below is a difference of two numbers, the k of its operands.
\* x is inserted after every element that does not sort after it.
RECURSIVE InsertByKey(_, _)
InsertByKey(x, sorted) ==
  IF sorted = <<>> THEN <<x>>
  ELSE IF x.k - Head(sorted).k < 0 THEN <<x>> \o sorted
       ELSE <<Head(sorted)>> \o InsertByKey(x, Tail(sorted))

RECURSIVE SortByKey(_)
SortByKey(keyed) ==
  IF keyed = <<>> THEN <<>>
  ELSE InsertByKey(keyed[Len(keyed)], SortByKey(SubSeq(keyed, 1, Len(keyed) - 1)))

Unkeyed(keyed) == [i \in 1..Len(keyed) |-> keyed[i].x]

\* Mutant of sortMarks: the comparator's operands swapped (oldest first).
sortMarksOldestFirst(allMarks) ==
  Unkeyed(SortByKey([i \in 1..Len(allMarks) |->
                       [k |-> allMarks[i].editDate, x |-> allMarks[i]]]))

\* allMarks.sort((a, b) => b.editDate - a.editDate)
sortMarks(allMarks) ==
  Unkeyed(SortByKey([i \in 1..Len(allMarks) |->
                       [k |-> 0 - allMarks[i].editDate, x |-> allMarks[i]]]))

\* list.slice(0, n)
Slice0(list, n) == SubSeq(list, 1, IF n < Len(list) THEN n ELSE Len(list))

\* Mutant of subjectsOf: no fallback to the empty list.
subjectsOfNoFallback(data) == Coalesce(<<Get(data, "Subjects"), Get(data, "subjects")>>)

\* response.data?.Subjects ?? response.data?.subjects ?? []
subjectsOf(data) == Coalesce(<<Get(data, "Subjects"), Get(data, "subjects"), Arr(<<>>)>>)

\* The two map steps of fetchSubjectMarks on the response's data.
fetchSubjectMarks(data) ==
  LET subjects == subjectsOf(data)
  IN  IF subjects.t # "array" THEN Thrown
      ELSE LET allMarks == flattenMarks(subjects.a)
           IN  IF allMarks.ok
               THEN Ok(Slice0(sortMarks(allMarks.v), MarksLimit))
               ELSE Thrown

\* ------------------------------------------------------------------ util.mjs
\* startOfUtcDay(date): UTC midnight of the instant's calendar day.
startOfUtcDay(ms) == ms - (ms % DayLen)

\* The calendar of the model: day of the month and month of an instant.
DayOfMonth(ms) == ((ms \div DayLen) % MonthDays) + 1
MonthOf(ms) == ((ms \div DayLen) \div MonthDays) + 1

\* formatDate(date): day, month and time of day of the instant.
formatDate(ms) ==
  Digits(DayOfMonth(ms)) \o <<".">> \o Digits(MonthOf(ms)) \o <<".", " ">>
    \o Digits(ms % DayLen) \o <<"h">>

\* describeRelativeDay(base, target): today, tomorrow, in N days, overdue.
describeRelativeDay(base, target) ==
  LET days == (startOfUtcDay(target) - startOfUtcDay(base)) \div DayLen
  IN  CASE days = 0 -> <<"d", "n", "e", "s">>
        [] days = 1 -> <<"z", "U+00ED", "t", "r", "a">>
        [] days > 1 -> <<"z", "a", " ">> \o Digits(days) \o <<" ", "d", "n", "U+00ED">>
        [] OTHER    -> <<"p", "o", " ", "t", "e", "r", "m", "U+00ED", "n", "u">>

\* --------------------------------------------------------------- homeworks
extractHomeworkDueDate(homework) ==
  LET dateString == Coalesce(<<Get(homework, "DueDate"), Get(homework, "Deadline"),
                               Get(homework, "Due"), Get(homework, "DateEnd"),
                               Get(homework, "Date"), Get(homework, "Created"),
                               Get(homework, "CreatedDate"), Get(homework, "DateStart")>>)
  IN  IF ~Truthy(dateString) THEN NoDate
      ELSE IF ~NewDate(dateString).valid THEN NoDate
      ELSE NewDate(dateString)

\* value => typeof value === 'string' && value.trim()
IsText(value) == value.t = "string" /\ Trim(value.s) # <<>>

RECURSIVE FindText(_)
\* candidates.find(IsText)?.trim() : undefined when none is found.
FindText(candidates) ==
  IF candidates = <<>> THEN Undef
  ELSE IF IsText(Head(candidates)) THEN Str(Trim(Head(candidates).s))
  ELSE FindText(Tail(candidates))

extractHomeworkContent(homework) ==
  Coalesce(<<FindText(<<Get(homework, "HomeworkText"), Get(homework, "Text"),
                        Get(homework, "Description"), Get(homework, "Title"),
                        Get(homework, "Content"), Get(homework, "Note"),
                        Get(homework, "Name")>>),
             Str(<<>>)>>)

\* Mutant of isHomeworkWithinRange: the instants compared, not their days (as
\* isMarkWithinRange compares them).
isHomeworkWithinInstants(homework, fromDate, toDate) ==
  LET dueDate == extractHomeworkDueDate(homework)
  IN  IF ~dueDate.valid THEN FALSE
      ELSE dueDate.ms >= fromDate /\ dueDate.ms <= toDate

isHomeworkWithinRange(homework, fromDate, toDate) ==
  LET dueDate == extractHomeworkDueDate(homework)
  IN  IF ~dueDate.valid THEN FALSE
      ELSE /\ startOfUtcDay(dueDate.ms) >= startOfUtcDay(fromDate)
           /\ startOfUtcDay(dueDate.ms) <= startOfUtcDay(toDate)

RECURSIVE homeworksInRange(_, _, _)
\* .filter(isHomeworkWithinRange).map(...).filter(homework => homework.dueDate)
\* A Date object is truthy, so the second filter keeps what the first kept.
homeworksInRange(homeworks, fromDate, toDate) ==
  IF homeworks = <<>> THEN <<>>
  ELSE LET homework == Head(homeworks)
       IN  (IF isHomeworkWithinRange(homework, fromDate, toDate)
            THEN <<[subjectName |-> extractSubjectName(homework),
                    dueDate |-> extractHomeworkDueDate(homework).ms,
                    content |-> extractHomeworkContent(homework).s]>>
            ELSE <<>>)
           \o homeworksInRange(Tail(homeworks), fromDate, toDate)

\* list.sort((a, b) => a.dueDate - b.dueDate)
sortHomeworks(list) ==
  Unkeyed(SortByKey([i \in 1..Len(list) |-> [k |-> list[i].dueDate, x |-> list[i]]]))

\* The body of fetchHomeworks after the response: the list, or the TypeError
\* of calling filter on a container that is not an array.
fetchHomeworks(data, fromDate, toDate) ==
  LET homeworks == Coalesce(<<Get(data, "Homeworks"), Get(data, "homeworks"), Arr(<<>>)>>)
  IN  IF homeworks.t # "array" THEN Thrown
      ELSE Ok(sortHomeworks(homeworksInRange(homeworks.a, fromDate, toDate)))

\* ------------------------------------------------------------------ events
parseDate(dateValue) ==
  IF ~Truthy(dateValue) THEN NoDate
  ELSE IF ~NewDate(dateValue).valid THEN NoDate
  ELSE NewDate(dateValue)

RECURSIVE FirstParsed(_)
\* for (const dateString of possibleDates) { if (parseDate(..)) return it }
FirstParsed(possibleDates) ==
  IF possibleDates = <<>> THEN NoDate
  ELSE IF parseDate(Head(possibleDates)).valid THEN parseDate(Head(possibleDates))
  ELSE FirstParsed(Tail(possibleDates))

extractEventStartDate(event) ==
  FirstParsed(<<Get(event, "DateFrom"), Get(event, "Start"), Get(event, "Date"),
                Get(event, "From"), Get(event, "Begin"), Get(event, "Since")>>)

extractEventEndDate(event) ==
  LET parsed == FirstParsed(<<Get(event, "DateTo"), Get(event, "End"), Get(event, "To"),
                              Get(event, "Finish"), Get(event, "Until")>>)
  IN  IF parsed.valid THEN parsed ELSE extractEventStartDate(event)

UnknownEvent ==
  <<"N", "e", "z", "n", "U+00E1", "m", "U+00E1", " ",
    "u", "d", "U+00E1", "l", "o", "s", "t">>

extractEventTitle(event) ==
  Coalesce(<<FindText(<<Get(event, "Title"), Get(event, "Name"),
                        Get(event, "Caption"), Get(event, "Description")>>),
             Str(UnknownEvent)>>)

extractEventDescription(event) ==
  Coalesce(<<FindText(<<Get(event, "Description"), Get(event, "Note"),
                        Get(event, "Content"), Get(event, "Text"),
                        Get(event, "HomeworkText")>>),
             Str(<<>>)>>)

extractEventType(event) ==
  LET type == Coalesce(<<Get(event, "Type"), Get(event, "EventType"), Get(event, "EventKind")>>)
  IN  IF IsText(type) THEN Str(Trim(type.s))
      ELSE IF IsText(Get(type, "Name")) THEN Str(Trim(Get(type, "Name").s))
      ELSE IF IsText(Get(type, "Abbrev")) THEN Str(Trim(Get(type, "Abbrev").s))
      ELSE Str(<<>>)

\* event is a mapped event: startDate is a Date or null.
isEventWithinRange(event, fromDate, toDate) ==
  IF ~event.startDate.valid THEN FALSE
  ELSE /\ startOfUtcDay(event.startDate.ms) >= startOfUtcDay(fromDate)
       /\ startOfUtcDay(event.startDate.ms) <= startOfUtcDay(toDate)

mapEvent(event) ==
  [startDate |-> extractEventStartDate(event),
   endDate |-> extractEventEndDate(event),
   subjectName |-> extractSubjectName(event),
   title |-> extractEventTitle(event).s,
   description |-> extractEventDescription(event).s,
   type |-> extractEventType(event).s]

RECURSIVE eventsInRange(_, _, _)
eventsInRange(events, fromDate, toDate) ==
  IF events = <<>> THEN <<>>
  ELSE (IF isEventWithinRange(mapEvent(Head(events)), fromDate, toDate)
        THEN <<mapEvent(Head(events))>> ELSE <<>>)
       \o eventsInRange(Tail(events), fromDate, toDate)

\* list.sort((a, b) => (a.startDate ?? 0) - (b.startDate ?? 0))
sortEvents(list) ==
  Unkeyed(SortByKey([i \in 1..Len(list) |->
            [k |-> IF list[i].startDate.valid THEN list[i].startDate.ms ELSE 0,
             x |-> list[i]]]))

fetchEvents(data, fromDate, toDate) ==
  LET events == Coalesce(<<Get(data, "Events"), Get(data, "events"), Arr(<<>>)>>)
  IN  IF events.t # "array" THEN Thrown
      ELSE Ok(sortEvents(eventsInRange(events.a, fromDate, toDate)))

\* ---------------------------------------------------------------- encoders
\* 'Zadne nove znamky za vybrane obdobi.' with its diacritics
NoMarksMessage ==
  <<"U+017D", "U+00E1", "d", "n", "U+00E9", " ", "n", "o", "v", "U+00E9",
    " ", "z", "n", "U+00E1", "m", "k", "y", " ", "z", "a",
    " ", "v", "y", "b", "r", "a", "n", "U+00E9", " ", "o",
    "b", "d", "o", "b", "U+00ED", ".">>

\* 'Zadne nadchazejici domaci ukoly.' with its diacritics
NoHomeworksMessage ==
  <<"U+017D", "U+00E1", "d", "n", "U+00E9", " ", "n", "a", "d", "c",
    "h", "U+00E1", "z", "e", "j", "U+00ED", "c", "U+00ED", " ", "d",
    "o", "m", "U+00E1", "c", "U+00ED", " ", "U+00FA", "k", "o", "l",
    "y", ".">>

\* 'Bez popisu'
NoContent ==
  <<"B", "e", "z", " ", "p", "o", "p", "i", "s", "u">>

\* A pair of the query string before its value is encoded.
PairKey(linePrefix, index) == linePrefix \o <<"_">> \o Digits(index) \o <<"=">>

\* `${name}=${encodeURIComponent(text)}`; throws when the encoding throws.
EncodedPair(key, text) ==
  LET enc == encodeURIComponent(text)
  IN  IF enc.ok THEN Ok(key \o enc.v) ELSE Thrown

\* The metadata pair: the formatted date has only characters that encode.
UpdatedPair(updatedParam, ms) ==
  updatedParam \o <<"=">> \o encodeURIComponent(formatDate(ms)).v

\* Intl.DateTimeFormat('cs-CZ', { day: 'numeric', month: 'numeric' })
formatShortDate(ms) ==
  Digits(DayOfMonth(ms)) \o <<".", " ">> \o Digits(MonthOf(ms)) \o <<".">>

\* The raw line of a mark; mark.subjectName.trim() is a TypeError unless the
\* subject name is a string.
markLine(mark) ==
  IF mark.subjectName.t # "string" THEN Thrown
  ELSE Ok(Trim(mark.subjectName.s) \o <<":", " ">> \o JsString(mark.markValue)
          \o <<" ", "(">> \o formatShortDate(mark.editDate) \o <<")">>)

RECURSIVE marksLines(_, _, _)
\* marks.map((mark, index) => ...), from the mark of 0-based index `index`.
marksLines(marks, index, linePrefix) ==
  IF marks = <<>> THEN Ok(<<>>)
  ELSE LET line == markLine(Head(marks))
       IN  IF ~line.ok THEN Thrown
           ELSE LET pair == EncodedPair(PairKey(linePrefix, index + 1), line.v)
                    rest == marksLines(Tail(marks), index + 1, linePrefix)
                IN  IF pair.ok /\ rest.ok THEN Ok(<<pair.v>> \o rest.v) ELSE Thrown

\* Mutant of buildMarksQueryString: the metadata pair always carries new Date().
buildMarksQueryStringStampedNow(marks, linePrefix, updatedParam, clock) ==
  IF Len(marks) = 0
  THEN Ok(JoinAmp(<<PairKey(linePrefix, 1) \o encodeURIComponent(NoMarksMessage).v,
                    UpdatedPair(updatedParam, clock)>>))
  ELSE LET lines == marksLines(marks, 0, linePrefix)
       IN  IF lines.ok
           THEN Ok(JoinAmp(lines.v \o <<UpdatedPair(updatedParam, clock)>>))
           ELSE Thrown

\* buildMarksQueryString(marks, linePrefix, updatedParam); clock is what
\* new Date() reads when the list is empty.
buildMarksQueryString(marks, linePrefix, updatedParam, clock) ==
  IF Len(marks) = 0
  THEN Ok(JoinAmp(<<PairKey(linePrefix, 1) \o encodeURIComponent(NoMarksMessage).v,
                    UpdatedPair(updatedParam, clock)>>))
  ELSE LET lines == marksLines(marks, 0, linePrefix)
           newestEditDate == marks[1].editDate
       IN  IF lines.ok
           THEN Ok(JoinAmp(lines.v \o <<UpdatedPair(updatedParam, newestEditDate)>>))
           ELSE Thrown

\* The raw line of a homework.
homeworkLine(homework, generatedAt) ==
  LET indicator == describeRelativeDay(generatedAt, homework.dueDate)
      subject == JsString(homework.subjectName)
      content == CollapseSpaces(IF homework.content # <<>> THEN homework.content
                                ELSE NoContent)
      dueDateText == formatDate(homework.dueDate)
  IN  <<"[">> \o indicator \o <<"]", " ">> \o subject \o <<":", " ">> \o content
        \o <<" ", "U+2013", " ">> \o dueDateText

\* Mutant of truncatedLine: the comparison is >= (a line of 50 is cut too).
truncatedLineFrom50(line) ==
  IF Len(line) >= LineMax THEN Substring0(line, LineKeep) \o <<".", ".", ".">> ELSE line

\* line.length > 50 ? line.substring(0, 49) + '...' : line
truncatedLine(line) ==
  IF Len(line) > LineMax THEN Substring0(line, LineKeep) \o <<".", ".", ".">> ELSE line

RECURSIVE homeworksLines(_, _, _, _)
\* homeworks.map((homework, index) => ...), from 0-based index `index`.
homeworksLines(homeworks, index, generatedAt, linePrefix) ==
  IF homeworks = <<>> THEN Ok(<<>>)
  ELSE LET line == homeworkLine(Head(homeworks), generatedAt)
           pair == EncodedPair(PairKey(linePrefix, index + 1), truncatedLine(line))
           rest == homeworksLines(Tail(homeworks), index + 1, generatedAt, linePrefix)
       IN  IF pair.ok /\ rest.ok THEN Ok(<<pair.v>> \o rest.v) ELSE Thrown

\* buildHomeworksQueryString(homeworks, generatedAt, linePrefix, updatedParam)
buildHomeworksQueryString(homeworks, generatedAt, linePrefix, updatedParam) ==
  IF Len(homeworks) = 0
  THEN Ok(JoinAmp(<<PairKey(linePrefix, 1) \o encodeURIComponent(NoHomeworksMessage).v,
                    UpdatedPair(updatedParam, generatedAt)>>))
  ELSE LET lines == homeworksLines(Slice0(homeworks, HomeworksLimit), 0, generatedAt, linePrefix)
       IN  IF lines.ok
           THEN Ok(JoinAmp(lines.v \o <<UpdatedPair(updatedParam, generatedAt)>>))
           ELSE Thrown

\* ------------------------------------------------------- the sync scripts
\* resolveWithDefault(name, index, fallback) on the candidate argument
resolveWithDefault(candidate, fallback) ==
  IF IsText(candidate) THEN Trim(candidate.s) ELSE fallback

GradesLine == <<"g", "r", "a", "d", "e", "s", "_", "l", "i", "n", "e">>
GradesUpdated == <<"g", "r", "a", "d", "e", "s", "_", "u", "p", "d", "a", "t", "e", "d">>
HomeworksLine == <<"h", "o", "m", "e", "w", "o", "r", "k", "s", "_", "l", "i", "n", "e">>
HomeworksUpdated ==
  <<"h", "o", "m", "e", "w", "o", "r", "k", "s", "_", "u", "p", "d", "a", "t", "e", "d">>

\* date.setMonth(date.getMonth() + n) on the model's calendar
AddMonths(ms, n) == ms + n * MonthDays * DayLen

VARIABLES
  kind,          \* "marks", "homeworks" or "events": which fetch is run
  caller,        \* "sync": a sync script runs it; "api": a caller of the client
  now,           \* const now = new Date() of the script
  fromDate,      \* the range handed to the fetch
  toDate,
  linePrefix,    \* the resolved line prefix
  updatedParam,  \* the resolved name of the metadata pair
  upstream,      \* response.data the server answers the data request with
  pc,            \* where the run is
  failure,       \* the step whose error ended the run, "none" otherwise
  records,       \* the list the fetch produced: [done, v]
  queryString,   \* the query string the encoder returned: [done, v]
  stamp,         \* the instant new Date() read inside buildMarksQueryString
  tokenRequests, \* POST /api/login requests sent
  dataRequests,  \* GET /api/3/... requests sent
  uploads        \* calls of uploadData

vars == <<kind, caller, now, fromDate, toDate, linePrefix, updatedParam, upstream,
          pc, failure, records, queryString, stamp, tokenRequests, dataRequests, uploads>>

config == <<kind, caller, now, fromDate, toDate, linePrefix, updatedParam, upstream>>

NotYet == [done |-> FALSE, v |-> <<>>]
Done(v) == [done |-> TRUE, v |-> v]

\* fetchAccessToken(): the login request is sent.
Start ==
  /\ pc = "start"
  /\ pc' = "login"
  /\ tokenRequests' = tokenRequests + 1
  /\ UNCHANGED <<config, failure, records, queryString, stamp, dataRequests, uploads>>

\* The login answers with an access token: the data request is sent.
LoginOk ==
  /\ pc = "login"
  /\ pc' = "request"
  /\ dataRequests' = dataRequests + 1
  /\ UNCHANGED <<config, failure, records, queryString, stamp, tokenRequests, uploads>>

\* The login request fails, or answers without an access_token (which throws).
LoginFail ==
  /\ pc = "login"
  /\ pc' = "failed"
  /\ failure' = "login"
  /\ UNCHANGED <<config, records, queryString, stamp, tokenRequests, dataRequests, uploads>>

\* Mutant of DataFail: the error is caught and an empty query string uploaded.
DataFailSwallowed ==
  /\ pc = "request"
  /\ pc' = "upload"
  /\ uploads' = uploads + 1
  /\ UNCHANGED <<config, failure, records, queryString, stamp, tokenRequests, dataRequests>>

\* The data request fails.
DataFail ==
  /\ pc = "request"
  /\ pc' = "failed"
  /\ failure' = "request"
  /\ UNCHANGED <<config, records, queryString, stamp, tokenRequests, dataRequests, uploads>>

\* An error inside an operator of the pipe reaches subscribe's error callback.
Fail(step) ==
  /\ pc' = "failed"
  /\ failure' = step

\* map(build...QueryString), tap, switchMap(uploadData) on an emitted list.
EncodeAndUpload(built) ==
  IF built.ok
  THEN /\ queryString' = Done(built.v)
       /\ uploads' = uploads + 1
       /\ pc' = "upload"
       /\ UNCHANGED failure
  ELSE /\ Fail("encode")
       /\ UNCHANGED <<queryString, uploads>>

\* marks-sync: the data response runs through the whole pipe in one go: the two
\* map steps of fetchSubjectMarks, buildMarksQueryString, uploadData.
MarksData ==
  /\ pc = "request"
  /\ kind = "marks"
  /\ LET marks == fetchSubjectMarks(upstream)
     IN  IF marks.ok
         THEN /\ records' = Done(marks.v)
              /\ \E clock \in {now, now + 1} :
                   /\ stamp' = (IF marks.v = <<>> THEN clock ELSE stamp)
                   /\ EncodeAndUpload(buildMarksQueryString(marks.v, linePrefix,
                                                            updatedParam, clock))
         ELSE /\ Fail("transform")
              /\ UNCHANGED <<records, queryString, stamp, uploads>>
  /\ UNCHANGED <<config, tokenRequests, dataRequests>>

\* fetchHomeworks / fetchEvents: the async function ends; its promise resolves
\* with the list or rejects.
ListData ==
  /\ pc = "request"
  /\ kind \in {"homeworks", "events"}
  /\ LET list == IF kind = "homeworks" THEN fetchHomeworks(upstream, fromDate, toDate)
                 ELSE fetchEvents(upstream, fromDate, toDate)
     IN  IF list.ok
         THEN /\ records' = Done(list.v)
              /\ pc' = "resolved"
              /\ UNCHANGED failure
         ELSE /\ Fail("transform")
              /\ UNCHANGED records
  /\ UNCHANGED <<config, queryString, stamp, tokenRequests, dataRequests, uploads>>

\* homeworks-sync: the resolved list is emitted into the pipe.
HomeworksEmit ==
  /\ pc = "resolved"
  /\ caller = "sync"
  /\ kind = "homeworks"
  /\ EncodeAndUpload(buildHomeworksQueryString(records.v, now, linePrefix, updatedParam))
  /\ UNCHANGED <<config, records, stamp, tokenRequests, dataRequests>>

\* A caller of the client receives the list.
Return ==
  /\ pc = "resolved"
  /\ caller = "api"
  /\ pc' = "returned"
  /\ UNCHANGED <<config, failure, records, queryString, stamp, tokenRequests,
                 dataRequests, uploads>>

\* uploadData answers.
UploadOk ==
  /\ pc = "upload"
  /\ pc' = "done"
  /\ UNCHANGED <<config, failure, records, queryString, stamp, tokenRequests,
                 dataRequests, uploads>>

\* uploadData fails.
UploadFail ==
  /\ pc = "upload"
  /\ pc' = "failed"
  /\ failure' = "upload"
  /\ UNCHANGED <<config, records, queryString, stamp, tokenRequests, dataRequests, uploads>>

Next ==
  \/ Start
  \/ LoginOk
  \/ LoginFail
  \/ DataFail
  \/ MarksData
  \/ ListData
  \/ HomeworksEmit
  \/ Return
  \/ UploadOk
  \/ UploadFail

\* ------------------------------------------------------------ initial states
\* What the upstream may answer and how the run is configured, drawn from
\* bounded families.  A property absent from a JSON object reads as undefined,
\* so an absent property is written as one holding Undef.
Instants == 0..MaxInstant

\* The arguments a script is started with for the prefix and the parameter.
ArgChoices == <<Undef, Str(<<" ", "p", " ">>), Str(<<" ">>)>>

RunStarts ==
  /\ pc = "start"
  /\ failure = "none"
  /\ records = NotYet
  /\ queryString = NotYet
  /\ stamp = 0
  /\ tokenRequests = 0
  /\ dataRequests = 0
  /\ uploads = 0

\* marks-sync.mjs started at instant t with argument a for both names.
MarksSync(t, a) ==
  /\ kind = "marks"
  /\ caller = "sync"
  /\ now = t
  /\ fromDate = AddMonths(t, -1)
  /\ toDate = t
  /\ linePrefix = resolveWithDefault(a, GradesLine)
  /\ updatedParam = resolveWithDefault(a, GradesUpdated)

\* homeworks-sync.mjs started at instant t with argument a for both names.
HomeworksSync(t, a) ==
  /\ kind = "homeworks"
  /\ caller = "sync"
  /\ now = t
  /\ fromDate = startOfUtcDay(t)
  /\ toDate = AddMonths(startOfUtcDay(t), 1)
  /\ linePrefix = resolveWithDefault(a, HomeworksLine)
  /\ updatedParam = resolveWithDefault(a, HomeworksUpdated)

\* A caller of the client asks for the range (f, t).
ApiCall(k, f, t) ==
  /\ kind = k
  /\ caller = "api"
  /\ now = 0
  /\ fromDate = f
  /\ toDate = t
  /\ linePrefix = <<>>
  /\ updatedParam = <<>>

\* A long text: n units, all "a" but for what stands at position p: a non-ASCII
\* unit, a surrogate pair or two spaces.
ContentLens == (MaxContentLen - 14)..MaxContentLen
Specials == {"plain", "wide", "pair", "spaces"}

LongContent(n, special, p) ==
  [i \in 1..n |->
     CASE special = "wide" /\ i = p       -> "U+017E"
       [] special = "pair" /\ i = p       -> "HI"
       [] special = "pair" /\ i = p + 1   -> "LO"
       [] special = "spaces" /\ i = p     -> " "
       [] special = "spaces" /\ i = p + 1 -> " "
       [] OTHER                           -> "a"]

\* -- marks: long lists.  Mark i of n has the edit date (stride * i) % modulus
\* and, when blankEvery divides i, an empty value; the first half of the marks
\* is under one subject and the rest under another.
Strides == {1, 5, 12}
Moduli == {13, 4}
BlankEvery == {0, 3}

LongMark(i, stride, modulus, blankEvery) ==
  Obj([EditDate |-> Str(DateText((stride * i) % modulus)),
       MarkText |-> IF blankEvery # 0 /\ i % blankEvery = 0 THEN Str(<<>>)
                    ELSE Str(Digits((i % 5) + 1))])

LongMarks(n, stride, modulus, blankEvery) ==
  LET half == (n + 1) \div 2
      mark(i) == LongMark(i, stride, modulus, blankEvery)
  IN  Obj([Subjects |-> Arr(<<
        Obj([Subject |-> Obj([Abbrev |-> Str(<<"M">>)]),
             Marks |-> Arr([i \in 1..half |-> mark(i)])]),
        Obj([Name |-> Str(<<"F", "y">>),
             marks |-> Arr([i \in 1..(n - half) |-> mark(half + i)])])>>)])

InitLongMarks ==
  \E n \in 0..MaxMarks, stride \in Strides, modulus \in Moduli, blankEvery \in BlankEvery :
    /\ MarksSync(MaxInstant, Undef)
    /\ upstream = LongMarks(n, stride, modulus, blankEvery)

\* -- marks: one mark under one subject, its fields drawn from the choices.
MarkTextChoices ==
  <<Undef, Null, Str(<<>>), Str(<<" ">>), Str(<<"1">>), Str(<<" ", "2", " ">>),
    Num(5), Str(<<"HI">>)>>
TextChoices == <<Undef, Str(<<"A">>), Str(<<" ">>)>>
EditDateChoices == <<Undef, Str(<<>>), Str(<<"x">>), Str(DateText(3))>>
MarkDateChoices == <<Undef, Str(DateText(2)), Str(<<"x">>)>>
SubjectChoices ==
  <<[Subject |-> Obj([Abbrev |-> Str(<<"M">>)]), Name |-> Undef],
    [Subject |-> Obj([Abbrev |-> Str(<<>>), Name |-> Str(<<"M", "a">>)]), Name |-> Undef],
    [Subject |-> Obj([Abbrev |-> Num(7)]), Name |-> Undef],
    [Subject |-> Undef, Name |-> Str(<<" ", "M", " ">>)],
    [Subject |-> Undef, Name |-> Undef]>>

OneMark(subject, markText, text, editDate, markDate) ==
  Obj([Subjects |-> Arr(<<
        Obj([Subject |-> subject.Subject, Name |-> subject.Name,
             Marks |-> Arr(<<Obj([MarkText |-> markText, Text |-> text,
                                  EditDate |-> editDate, MarkDate |-> markDate])>>)])>>)])

InitOneMark ==
  \E s \in 1..Len(SubjectChoices), a \in 1..Len(MarkTextChoices),
     b \in 1..Len(TextChoices), c \in 1..Len(EditDateChoices),
     d \in 1..Len(MarkDateChoices) :
    /\ MarksSync(MaxInstant, Undef)
    /\ upstream = OneMark(SubjectChoices[s], MarkTextChoices[a], TextChoices[b],
                          EditDateChoices[c], MarkDateChoices[d])

\* -- marks: one mark with a long value.
InitLongMarkText ==
  \E n \in ContentLens, special \in Specials :
    /\ MarksSync(MaxInstant, Undef)
    /\ upstream = OneMark(SubjectChoices[1], Str(LongContent(n, special, n - 1)),
                          Undef, Str(DateText(1)), Undef)

\* -- marks: the shapes of the answer around the marks.
GoodMark == Obj([MarkText |-> Str(<<"1">>), EditDate |-> Str(DateText(2))])
MarksShapes ==
  <<Undef,
    Str(<<"x">>),
    Obj([Other |-> Num(1)]),
    Obj([Subjects |-> Arr(<<>>)]),
    Obj([Subjects |-> Null, subjects |-> Arr(<<Obj([Abbrev |-> Str(<<"M">>),
                                                    Marks |-> Arr(<<GoodMark>>)])>>)]),
    Obj([Subjects |-> Str(<<"x">>)]),
    Obj([Subjects |-> Obj([Marks |-> Arr(<<GoodMark>>)])]),
    Obj([Subjects |-> Arr(<<Null, Num(3)>>)]),
    Obj([Subjects |-> Arr(<<Obj([Marks |-> Str(<<"x">>)])>>)]),
    Obj([Subjects |-> Arr(<<Obj([Marks |-> Arr(<<Null, Num(3), Str(<<"x">>)>>)])>>)]),
    Obj([Subjects |-> Arr(<<Obj([Marks |-> Arr(<<>>)]),
                            Obj([marks |-> Arr(<<GoodMark>>)])>>)])>>

InitMarksShapes ==
  \E i \in 1..Len(MarksShapes), t \in Instants, a \in 1..Len(ArgChoices) :
    /\ MarksSync(t, ArgChoices[a])
    /\ upstream = MarksShapes[i]

\* -- homeworks: ranges.  One homework due at d1, and a second one due at d2
\* when d2 is an instant, asked for every range.
SecondDue == {-1, 0, MaxInstant}

DueOnly(d) == Obj([DueDate |-> Str(DateText(d)), HomeworkText |-> Str(<<"u">>)])

InitHomeworkRanges ==
  \E f \in Instants, t \in Instants, d1 \in Instants, d2 \in SecondDue :
    /\ ApiCall("homeworks", f, t)
    /\ upstream = Obj([Homeworks |-> Arr(IF d2 < 0 THEN <<DueOnly(d1)>>
                                         ELSE <<DueOnly(d1), DueOnly(d2)>>)])

\* -- homeworks: one homework, its fields drawn from the choices.
DueDateChoices ==
  <<Undef, Null, Str(<<>>), Str(<<"x">>), Str(DateText(1)), Num(0)>>
DeadlineChoices == <<Undef, Str(DateText(2)), Str(<<"x">>)>>
DateStartChoices == <<Undef, Str(DateText(4))>>
HomeworkTextChoices ==
  <<Undef, Str(<<>>), Str(<<" ">>), Str(<<" ", "a", " ", "\t", "b", " ">>), Num(3)>>
HomeworkNameChoices == <<Undef, Str(<<"N">>), Str(<<" ">>)>>

OneHomework(dueDate, deadline, dateStart, homeworkText, text, name) ==
  Obj([homeworks |-> Arr(<<
        Obj([DueDate |-> dueDate, Deadline |-> deadline, DateStart |-> dateStart,
             HomeworkText |-> homeworkText, Text |-> text, Name |-> name])>>)])

InitOneHomework ==
  \E a \in 1..Len(DueDateChoices), b \in 1..Len(DeadlineChoices),
     c \in 1..Len(DateStartChoices), d \in 1..Len(HomeworkTextChoices),
     e \in 1..Len(TextChoices), g \in 1..Len(HomeworkNameChoices) :
    /\ HomeworksSync(1, Undef)
    /\ upstream = OneHomework(DueDateChoices[a], DeadlineChoices[b], DateStartChoices[c],
                              HomeworkTextChoices[d], TextChoices[e],
                              HomeworkNameChoices[g])

\* -- homeworks: one homework with a long text.
InitLongContent ==
  \E n \in ContentLens, special \in Specials, back \in 1..6, due \in {1, DayLen} :
    /\ HomeworksSync(1, Undef)
    /\ upstream = Obj([Homeworks |-> Arr(<<
         Obj([Subject |-> Obj([Abbrev |-> Str(<<"M">>)]),
              DueDate |-> Str(DateText(due)),
              Text |-> Str(LongContent(n, special, n - back))])>>)])

\* -- homeworks: long lists.  Homework i of n is due at (stride * i) % modulus,
\* inside the month that starts today.
HomeworkStrides == {1, 5}

InitLongHomeworks ==
  \E n \in 0..MaxHomeworks, stride \in HomeworkStrides, a \in 1..Len(ArgChoices) :
    /\ HomeworksSync(1, ArgChoices[a])
    /\ upstream = Obj([Homeworks |-> Arr([i \in 1..n |->
         Obj([Abbrev |-> IF i % 4 = 0 THEN Num(i) ELSE Str(<<"M">>),
              Deadline |-> Str(DateText((stride * i) % (DayLen * (MonthDays + 1)))),
              Title |-> Str(Digits(i))])])])

\* -- homeworks: the shapes of the answer around the homeworks.
HomeworksShapes ==
  <<Undef,
    Obj([Other |-> Num(1)]),
    Obj([Homeworks |-> Null]),
    Obj([Homeworks |-> Str(<<"x">>)]),
    Obj([Homeworks |-> Obj([DueDate |-> Str(DateText(1))])]),
    Obj([Homeworks |-> Arr(<<Null, Num(3), Str(<<"x">>)>>)])>>

InitHomeworksShapes ==
  \E i \in 1..Len(HomeworksShapes), t \in Instants, a \in 1..Len(ArgChoices) :
    /\ HomeworksSync(t, ArgChoices[a])
    /\ upstream = HomeworksShapes[i]

\* -- events: ranges.  One event that starts at d, asked for every range.
InitEventRanges ==
  \E f \in Instants, t \in Instants, d \in Instants :
    /\ ApiCall("events", f, t)
    /\ upstream = Obj([Events |-> Arr(<<Obj([Start |-> Str(DateText(d))])>>)])

\* -- events: one event, its fields drawn from the choices.
DateFromChoices == <<Undef, Str(<<"x">>), Str(DateText(1))>>
StartChoices == <<Undef, Str(DateText(2))>>
DateToChoices == <<Undef, Str(DateText(3)), Str(<<"x">>)>>
TitleChoices == <<Undef, Str(<<>>), Str(<<" ", "t", " ">>), Num(1)>>
EventNameChoices == <<Undef, Str(<<"n">>)>>
DescriptionChoices == <<Undef, Str(<<"d">>)>>
TypeChoices ==
  <<Undef, Str(<<" ", "k", " ">>), Obj([Name |-> Str(<<"k", "n">>)]),
    Obj([Abbrev |-> Str(<<"k", "a">>)])>>

InitOneEvent ==
  \E a \in 1..Len(DateFromChoices), b \in 1..Len(StartChoices),
     c \in 1..Len(DateToChoices), d \in 1..Len(TitleChoices),
     e \in 1..Len(EventNameChoices), g \in 1..Len(DescriptionChoices),
     h \in 1..Len(TypeChoices) :
    /\ ApiCall("events", 0, MaxInstant)
    /\ upstream = Obj([events |-> Arr(<<
         Obj([DateFrom |-> DateFromChoices[a], Start |-> StartChoices[b],
              DateTo |-> DateToChoices[c], Title |-> TitleChoices[d],
              Name |-> EventNameChoices[e], Description |-> DescriptionChoices[g],
              EventType |-> TypeChoices[h]])>>)])

\* -- events: the shapes of the answer around the events.
EventsShapes ==
  <<Undef, Obj([Events |-> Str(<<"x">>)]), Obj([Events |-> Arr(<<Null>>)]),
    Obj([Events |-> Arr(<<Obj([DateTo |-> Str(DateText(1))])>>)])>>

InitEventsShapes ==
  \E i \in 1..Len(EventsShapes) :
    /\ ApiCall("events", 0, MaxInstant)
    /\ upstream = EventsShapes[i]

Init ==
  /\ RunStarts
  /\ \/ InitLongMarks
     \/ InitOneMark
     \/ InitLongMarkText
     \/ InitMarksShapes
     \/ InitHomeworkRanges
     \/ InitOneHomework
     \/ InitLongContent
     \/ InitLongHomeworks
     \/ InitHomeworksShapes
     \/ InitEventRanges
     \/ InitOneEvent
     \/ InitEventsShapes

Spec == Init /\ [][Next]_vars

\* ============================================================== properties
\* The number of places of list that hold r.
Occurrences(list, r) == Cardinality({i \in 1..Len(list) : list[i] = r})

\* The valid marks of the answer, in the order of the answer.
AllValidMarks == flattenMarks(subjectsOf(upstream).a).v

\* C1: the list fetchSubjectMarks returns holds min(N, 10) of the N valid marks
\* of the answer, newest edit date first, each no more often than the answer
\* holds it, and every valid mark with an edit date later than that of a
\* returned mark is itself returned.
C1_LatestTen ==
  (kind = "marks" /\ records.done) =>
    LET all == AllValidMarks
        kept == records.v
    IN  /\ Len(kept) = (IF Len(all) < MarksLimit THEN Len(all) ELSE MarksLimit)
        /\ \A i \in 1..(Len(kept) - 1) : kept[i].editDate >= kept[i + 1].editDate
        /\ \A i \in 1..Len(kept) : Occurrences(kept, kept[i]) <= Occurrences(all, kept[i])
        /\ \A j \in 1..Len(all) :
             (\E i \in 1..Len(kept) : all[j].editDate > kept[i].editDate)
               => Occurrences(kept, all[j]) = Occurrences(all, all[j])

\* More than ten valid marks, and one of the first ten of the answer is left
\* out of the returned list.
C1_Witness ==
  /\ kind = "marks"
  /\ records.done
  /\ Len(AllValidMarks) > MarksLimit
  /\ \E j \in 1..MarksLimit : Occurrences(records.v, AllValidMarks[j]) = 0

\* The UTC calendar day of an instant.
DayOf(ms) == ms \div DayLen

\* The raw homeworks or events of the answer.
RawList ==
  IF kind = "homeworks"
  THEN Coalesce(<<Get(upstream, "Homeworks"), Get(upstream, "homeworks"), Arr(<<>>)>>).a
  ELSE Coalesce(<<Get(upstream, "Events"), Get(upstream, "events"), Arr(<<>>)>>).a

\* The date the range is decided on.
RawDate(r) ==
  IF kind = "homeworks" THEN extractHomeworkDueDate(r) ELSE extractEventStartDate(r)
KeptDate(r) == IF kind = "homeworks" THEN r.dueDate ELSE r.startDate.ms

\* C2: fetchHomeworks and fetchEvents return, of the records with a resolvable
\* date, exactly those whose date is on a UTC day from the day of fromDate to
\* the day of toDate, both included.
C2_DayInclusiveRange ==
  (kind \in {"homeworks", "events"} /\ records.done) =>
    LET raw == RawList
        resolved == {j \in 1..Len(raw) : RawDate(raw[j]).valid}
        dates == {RawDate(raw[j]).ms : j \in resolved}
                   \cup {KeptDate(records.v[i]) : i \in 1..Len(records.v)}
    IN  \A d \in dates :
          Cardinality({i \in 1..Len(records.v) : KeptDate(records.v[i]) = d})
            = (IF DayOf(d) >= DayOf(fromDate) /\ DayOf(d) <= DayOf(toDate)
               THEN Cardinality({j \in resolved : RawDate(raw[j]).ms = d})
               ELSE 0)

\* fromDate and toDate are on one day, fromDate later in it than toDate, and a
\* homework due on that day before fromDate is returned.
C2_Witness ==
  /\ kind = "homeworks"
  /\ records.done
  /\ DayOf(fromDate) = DayOf(toDate)
  /\ fromDate > toDate
  /\ \E i \in 1..Len(records.v) : records.v[i].dueDate < fromDate

\* The places of a query string that hold "&", and its pairs.
AmpPositions(s) == {i \in 1..Len(s) : s[i] = "&"}
PairCount(s) == Cardinality(AmpPositions(s)) + 1
Kth(S, k) == CHOOSE x \in S : Cardinality({y \in S : y <= x}) = k
PairAt(s, k) ==
  SubSeq(s, Kth({0} \cup AmpPositions(s), k) + 1,
            Kth(AmpPositions(s) \cup {Len(s) + 1}, k) - 1)
StartsWith(s, prefix) ==
  Len(s) >= Len(prefix) /\ SubSeq(s, 1, Len(prefix)) = prefix

\* C3: pair i of the homeworks query string, for each of the first ten
\* homeworks, is the key and the percent-encoding of the rendered line, cut to
\* its first 49 units and "..." when it is longer than 50 units and whole
\* when it is not.
C3_TruncationRule ==
  (kind = "homeworks" /\ queryString.done) =>
    \A i \in 1..Len(records.v) :
      i <= 10 =>
        LET line == homeworkLine(records.v[i], now)
            text == IF Len(line) > 50 THEN SubSeq(line, 1, 49) \o <<".", ".", ".">>
                    ELSE line
        IN  PairAt(queryString.v, i)
              = linePrefix \o <<"_">> \o Digits(i) \o <<"=">> \o encodeURIComponent(text).v

\* A rendered line longer than 50 units was encoded.
C3_Witness ==
  /\ kind = "homeworks"
  /\ queryString.done
  /\ \E i \in 1..Len(records.v) : Len(homeworkLine(records.v[i], now)) > 50

\* The answer holds neither container under either spelling.
NoContainer ==
  IF kind = "marks"
  THEN IsNullish(Get(upstream, "Subjects")) /\ IsNullish(Get(upstream, "subjects"))
  ELSE IsNullish(Get(upstream, "Homeworks")) /\ IsNullish(Get(upstream, "homeworks"))

\* The query string of an empty list.
NoItemsString(message, ms) ==
  linePrefix \o <<"_", "1", "=">> \o encodeURIComponent(message).v \o <<"&">>
    \o updatedParam \o <<"=">> \o encodeURIComponent(formatDate(ms)).v

\* C4: in a sync run whose data request was answered, an answer without a
\* container gives the empty list, and once the empty list has reached the
\* encoder the query string is the no-items pair and the metadata pair, and
\* the run has not failed in the transform or the encoder.
C4_EmptyList ==
  (caller = "sync" /\ failure \notin {"login", "request"}
     /\ pc \in {"resolved", "upload", "done", "failed"}) =>
    /\ NoContainer => records.done /\ Len(records.v) = 0
    /\ (records.done /\ Len(records.v) = 0 /\ pc # "resolved") =>
         /\ failure \in {"none", "upload"}
         /\ queryString.done
         /\ queryString.v = (IF kind = "marks" THEN NoItemsString(NoMarksMessage, stamp)
                             ELSE NoItemsString(NoHomeworksMessage, now))

\* An answer without a container was encoded in a marks run.
C4_Witness ==
  /\ kind = "marks"
  /\ NoContainer
  /\ queryString.done
  /\ pc = "upload"

C5State ==
  /\ uploads <= 1 /\ tokenRequests <= 1 /\ dataRequests <= 1
  /\ dataRequests = 1 => tokenRequests = 1
  /\ uploads = 1 => /\ dataRequests = 1
                    /\ records.done
                    /\ queryString.done
                    /\ failure \in {"none", "upload"}
  /\ failure \in {"login", "request"} =>
       /\ pc = "failed"
       /\ ~records.done
       /\ ~queryString.done
       /\ uploads = 0

C5Step ==
  /\ pc # "failed"
  /\ tokenRequests' # tokenRequests => pc = "start"
  /\ dataRequests' # dataRequests => pc = "login"
  /\ uploads' # uploads => pc \in {"request", "resolved"} /\ queryString'.done

\* C5: uploadData is called at most once, and only with the token and the data
\* received and the query string built; each request is sent at most once; a
\* failed login or data request leaves the run failed with no list, no query
\* string and no upload, and a failed run takes no further step.
C5_UploadOnce == [](C5State) /\ [][C5Step]_vars

\* The data request failed after the token was received.
C5_Witness ==
  /\ pc = "failed"
  /\ failure = "request"
  /\ tokenRequests = 1
  /\ dataRequests = 1

\* The latest edit date of the valid marks of the answer.
NewestEditDate ==
  CHOOSE d \in {AllValidMarks[j].editDate : j \in 1..Len(AllValidMarks)} :
    \A j \in 1..Len(AllValidMarks) : AllValidMarks[j].editDate <= d

\* The last pair of the query string is the only metadata pair and carries ms.
UpdatedIsLast(ms) ==
  LET n == PairCount(queryString.v)
  IN  /\ PairAt(queryString.v, n)
           = updatedParam \o <<"=">> \o encodeURIComponent(formatDate(ms)).v
      /\ \A k \in 1..(n - 1) :
           ~StartsWith(PairAt(queryString.v, k), updatedParam \o <<"=">>)

\* C10: the metadata pair is the last pair and the only one; in a marks run with
\* a valid mark it carries the latest edit date of the valid marks of the
\* answer, in a homeworks run the generation time.
C10_UpdatedPair ==
  queryString.done =>
    /\ (kind = "marks" /\ Len(records.v) >= 1) => UpdatedIsLast(NewestEditDate)
    /\ kind = "homeworks" => UpdatedIsLast(now)

\* More than ten valid marks, the newest neither first in the answer nor dated
\* at the generation time.
C10_Witness ==
  /\ kind = "marks"
  /\ queryString.done
  /\ Len(AllValidMarks) > MarksLimit
  /\ NewestEditDate \notin {now, stamp, AllValidMarks[1].editDate}

\* The raw subject groups of the answer and the raw marks of one of them.
RawSubjects == subjectsOf(upstream).a
RawMarksOf(subject) ==
  Coalesce(<<Get(subject, "Marks"), Get(subject, "marks"), Arr(<<>>)>>).a

\* The first candidate that is a string with non-white-space content, trimmed.
FirstText(candidates, fallback) == Coalesce(<<FindText(candidates), Str(fallback)>>)

MarkValueCandidates(mark) ==
  <<Get(mark, "MarkText"), Get(mark, "Text"), Get(mark, "Caption"),
    Get(mark, "ValueText"), StringIfDefined(Get(mark, "Value")),
    StringIfDefined(Get(mark, "Mark"))>>

SubjectNameCandidates(subject) ==
  <<Get(Get(subject, "Subject"), "Abbrev"), Get(Get(subject, "Subject"), "Name"),
    Get(subject, "Name"), Get(subject, "Abbrev")>>

\* C6: every resolved mark value and subject name is a string without leading
\* or trailing white space, and a mark whose first non-blank text candidate is
\* v and whose edit date resolves is returned with the value v and the first
\* non-blank name of its subject.
C6_TextResolversSkipBlanks ==
  (kind = "marks" /\ records.done /\ Len(AllValidMarks) <= MarksLimit) =>
    /\ \A i \in 1..Len(records.v) :
         /\ records.v[i].markValue.t = "string"
         /\ Trim(records.v[i].markValue.s) = records.v[i].markValue.s
         /\ records.v[i].subjectName.t = "string"
         /\ Trim(records.v[i].subjectName.s) = records.v[i].subjectName.s
    /\ \A j \in 1..Len(RawSubjects) : \A k \in 1..Len(RawMarksOf(RawSubjects[j])) :
         LET mark == RawMarksOf(RawSubjects[j])[k]
             value == FirstText(MarkValueCandidates(mark), <<>>)
             name == FirstText(SubjectNameCandidates(RawSubjects[j]), UnknownSubject)
         IN  (value.s # <<>> /\ markEditDate(mark).valid) =>
               \E i \in 1..Len(records.v) :
                 /\ records.v[i].markValue.t = "string"
                 /\ records.v[i].markValue.s = value.s
                 /\ records.v[i].subjectName.t = "string"
                 /\ records.v[i].subjectName.s = name.s

HomeworkDateCandidates(homework) ==
  <<Get(homework, "DueDate"), Get(homework, "Deadline"), Get(homework, "Due"),
    Get(homework, "DateEnd"), Get(homework, "Date"), Get(homework, "Created"),
    Get(homework, "CreatedDate"), Get(homework, "DateStart")>>

MarkDateCandidates(mark) ==
  <<Get(mark, "EditDate"), Get(mark, "MarkDate"), Get(mark, "Date"),
    Get(mark, "Created"), Get(mark, "CreatedDate")>>

\* C7: a homework whose first candidate that parses to a valid instant is d,
\* on a day of the range, is returned with the due date d; a mark with a value
\* whose first candidate that parses is d is returned with the edit date d.
C7_DateResolversSkipInvalid ==
  /\ (kind = "homeworks" /\ records.done) =>
       \A j \in 1..Len(RawList) :
         LET d == FirstParsed(HomeworkDateCandidates(RawList[j]))
         IN  (d.valid /\ DayOf(d.ms) >= DayOf(fromDate) /\ DayOf(d.ms) <= DayOf(toDate))
               => \E i \in 1..Len(records.v) : records.v[i].dueDate = d.ms
  /\ (kind = "marks" /\ records.done /\ Len(AllValidMarks) <= MarksLimit) =>
       \A j \in 1..Len(RawSubjects) : \A k \in 1..Len(RawMarksOf(RawSubjects[j])) :
         LET mark == RawMarksOf(RawSubjects[j])[k]
             d == FirstParsed(MarkDateCandidates(mark))
         IN  (Truthy(extractMarkValue(mark)) /\ d.valid)
               => \E i \in 1..Len(records.v) : records.v[i].editDate = d.ms

\* C8: once the data request is answered, neither the transform nor the
\* encoder raises.
C8_TransformNeverRaises == failure \notin {"transform", "encode"}

\* The raw text of line i of the run.
RawLine(i) ==
  IF kind = "marks" THEN markLine(records.v[i]).v ELSE homeworkLine(records.v[i], now)

\* C9: every indexed pair of a query string, of marks and of homeworks, carries
\* the percent-encoding of its raw line cut to 49 units and "..." when the raw
\* line is longer than 50 units.
C9_EveryLineBounded ==
  (queryString.done /\ Len(records.v) >= 1) =>
    \A i \in 1..(PairCount(queryString.v) - 1) :
      LET line == RawLine(i)
          text == IF Len(line) > 50 THEN SubSeq(line, 1, 49) \o <<".", ".", ".">>
                  ELSE line
      IN  PairAt(queryString.v, i)
            = linePrefix \o <<"_">> \o Digits(i) \o <<"=">> \o encodeURIComponent(text).v

====
